---------------------------- MODULE Spec2Model ----------------------------
(***************************************************************************)
(* The in-memory repositories of the DSP DevX support backend              *)
(* (backend/src/core/repository.py), the query layer of the routers        *)
(* (backend/src/api/routers/tickets.py, kb.py) and the handlers of the     *)
(* application object (backend/src/api/main.py).                           *)
(*                                                                         *)
(* A Python dict is an insertion-ordered association: a sequence of        *)
(* [key, value] entries.  A str is a TLA+ string, a List a sequence, a     *)
(* datetime a natural number, None the record None.  A payload whose       *)
(* Optional field is None is a record without that field.                  *)
(***************************************************************************)
EXTENDS Integers, Sequences, FiniteSets, TLC

(***************************************************************************)
(* Bounds of the model.                                                    *)
(***************************************************************************)
\* create calls in a run, over the three stores
MaxCreates == 2

\* create calls in a run of updates with every kind of patch
MaxPatchCreates == 1

\* create calls in a run of paged listings
MaxPageCreates == 5

\* the largest page number asked for
MaxPage == 4

\* the creates of a run of filtered listings
MaxFilterCreates == 2

\* the creates of a run of comment requests
MaxCommentCreates == 3

\* request threads running at once
NumThreads == 2

\* the largest value datetime.utcnow() returns
MaxClock == 1

VARIABLES
    ticket_items,      \* InMemoryTicketRepository._items
    ticket_next_id,    \* InMemoryTicketRepository._next_id
    comment_items,     \* InMemoryCommentRepository._items
    comment_by_ticket, \* InMemoryCommentRepository._by_ticket
    comment_next_id,   \* InMemoryCommentRepository._next_id
    kb_items,          \* InMemoryKBRepository._items
    kb_next_id,        \* InMemoryKBRepository._next_id
    now,               \* the last value datetime.utcnow() returned
    last,              \* the call that returned last: its name, arguments, result
    created,           \* per store, what create returned, in call order: the ids
                       \* of the tickets and articles, the comments themselves
    deleted,           \* per store, the ids for which delete returned True
    threads            \* per request thread, the call it runs: where it is, its locals

vars == <<ticket_items, ticket_next_id, comment_items, comment_by_ticket,
          comment_next_id, kb_items, kb_next_id, now, last, created, deleted,
          threads>>

ticket_vars == <<ticket_items, ticket_next_id>>

comment_vars == <<comment_items, comment_by_ticket, comment_next_id>>

kb_vars == <<kb_items, kb_next_id>>

(***************************************************************************)
(* Python values.                                                          *)
(***************************************************************************)
None == [absent |-> TRUE]

\* dict.keys() as a set
DictKeys(d) == {d[i].key : i \in DOMAIN d}

\* list(dict.values()): the values in insertion order
DictValues(d) == [i \in DOMAIN d |-> d[i].value]

\* dict.get(k): the value under k, None when k is no key
DictGet(d, k) ==
    IF k \in DictKeys(d)
    THEN d[CHOOSE i \in DOMAIN d : d[i].key = k].value
    ELSE None

\* dict.get(k, default), and dict.setdefault(k, default) before it stores
DictGetOr(d, k, default) ==
    IF k \in DictKeys(d)
    THEN d[CHOOSE i \in DOMAIN d : d[i].key = k].value
    ELSE default

\* d[k] = v on a dict that moves a key it rewrites to the end
DictSet_moving(d, k, v) ==
    Append(SelectSeq(d, LAMBDA e : e.key # k), [key |-> k, value |-> v])

\* d[k] = v: a present key keeps its place, a new key goes last
DictSet(d, k, v) ==
    IF k \in DictKeys(d)
    THEN [i \in DOMAIN d |-> IF d[i].key = k THEN [key |-> k, value |-> v] ELSE d[i]]
    ELSE Append(d, [key |-> k, value |-> v])

\* the dict without k and without the keys inserted before k
DictPop_upto(d, k) == SelectSeq(d, LAMBDA e : e.key > k)

\* d.pop(k, None): the dict without k
DictPop(d, k) == SelectSeq(d, LAMBDA e : e.key # k)

\* `x or []` of a list
OrEmptyList(x) == IF x = <<>> THEN <<>> ELSE x

\* payload.f is not None
IsSet(payload, f) == f \in DOMAIN payload


Min(a, b) == IF a < b THEN a ELSE b

\* s[start:end] of a list, for 0 <= start <= end
PySlice(s, start, end) == SubSeq(s, Min(start, Len(s)) + 1, Min(end, Len(s)))

UpperLetters == "ABCDEFGHIJKLMNOPQRSTUVWXYZ"

LowerLetters == "abcdefghijklmnopqrstuvwxyz"

\* str.lower() of one character (ASCII)
LowerChar(c) ==
    IF \E i \in 1 .. Len(UpperLetters) : SubSeq(UpperLetters, i, i) = c
    THEN LET i == CHOOSE i \in 1 .. Len(UpperLetters) : SubSeq(UpperLetters, i, i) = c
         IN  SubSeq(LowerLetters, i, i)
    ELSE c

\* str.lower()
RECURSIVE Lower(_)
Lower(s) ==
    IF s = "" THEN "" ELSE LowerChar(SubSeq(s, 1, 1)) \o Lower(SubSeq(s, 2, Len(s)))

\* sub in s, of two str
Contains(sub, s) ==
    \E i \in 0 .. (Len(s) - Len(sub)) : SubSeq(s, i + 1, i + Len(sub)) = sub

\* the truth value of an Optional[str]: neither None nor ""
Truthy(args, f) == IsSet(args, f) /\ args[f] # ""

\* a payload with no field set
NoFields == [f \in {} |-> None]

(***************************************************************************)
(* InMemoryTicketRepository.                                               *)
(***************************************************************************)
TicketRepository_list(items) == DictValues(items)

TicketRepository_get(items, ticket_id) == DictGet(items, ticket_id)

\* the Ticket that create builds; t1, t2: the two values of datetime.utcnow()
\* the ticket with the two clock reads the other way round
TicketRepository_new_swapped(next_id, payload, t1, t2) ==
    [id |-> next_id,
     title |-> payload.title,
     description |-> payload.description,
     status |-> "open",
     created_by |-> payload.created_by,
     created_at |-> t2,
     updated_at |-> t1,
     tags |-> OrEmptyList(payload.tags)]

TicketRepository_new(next_id, payload, t1, t2) ==
    [id |-> next_id,
     title |-> payload.title,
     description |-> payload.description,
     status |-> "open",
     created_by |-> payload.created_by,
     created_at |-> t1,
     updated_at |-> t2,
     tags |-> OrEmptyList(payload.tags)]

\* create taking the number of stored tickets + 1 as the identifier
TicketRepository_create_counting(items, next_id, payload, t1, t2) ==
    LET new == TicketRepository_new(Len(items) + 1, payload, t1, t2)
    IN  [items |-> DictSet(items, Len(items) + 1, new),
         next_id |-> next_id + 1,
         ret |-> new]

TicketRepository_create(items, next_id, payload, t1, t2) ==
    LET new == TicketRepository_new(next_id, payload, t1, t2)
    IN  [items |-> DictSet(items, next_id, new),
         next_id |-> next_id + 1,
         ret |-> new]

\* update that does not refresh updated_at
TicketRepository_update_data_stale(existing, payload, t) ==
    [existing EXCEPT
        !.title = IF IsSet(payload, "title") THEN payload.title ELSE @,
        !.description = IF IsSet(payload, "description") THEN payload.description ELSE @,
        !.status = IF IsSet(payload, "status") THEN payload.status ELSE @,
        !.tags = IF IsSet(payload, "tags") THEN payload.tags ELSE @]

\* update building the Ticket anew, with the status a Ticket has by default
\* (models.py 40) unless payload sets it
TicketRepository_update_data_defaulting(existing, payload, t) ==
    [existing EXCEPT
        !.title = IF IsSet(payload, "title") THEN payload.title ELSE @,
        !.description = IF IsSet(payload, "description") THEN payload.description ELSE @,
        !.status = IF IsSet(payload, "status") THEN payload.status ELSE "open",
        !.tags = IF IsSet(payload, "tags") THEN payload.tags ELSE @,
        !.updated_at = t]

\* update under which a closed ticket keeps its status
TicketRepository_update_data_closed_final(existing, payload, t) ==
    [existing EXCEPT
        !.title = IF IsSet(payload, "title") THEN payload.title ELSE @,
        !.description = IF IsSet(payload, "description") THEN payload.description ELSE @,
        !.status = IF IsSet(payload, "status") /\ @ # "closed" THEN payload.status ELSE @,
        !.tags = IF IsSet(payload, "tags") THEN payload.tags ELSE @,
        !.updated_at = t]

\* update taking an empty value of the patch for an omitted one
TicketRepository_update_data_truthy(existing, payload, t) ==
    [existing EXCEPT
        !.title = IF IsSet(payload, "title") /\ payload.title # ""
                  THEN payload.title ELSE @,
        !.description = IF IsSet(payload, "description") /\ payload.description # ""
                        THEN payload.description ELSE @,
        !.status = IF IsSet(payload, "status") /\ payload.status # ""
                   THEN payload.status ELSE @,
        !.tags = IF IsSet(payload, "tags") /\ payload.tags # <<>>
                 THEN payload.tags ELSE @,
        !.updated_at = t]

\* the model_dump() of existing, with the fields that payload sets and
\* updated_at = t, the value of datetime.utcnow()
TicketRepository_update_data(existing, payload, t) ==
    [existing EXCEPT
        !.title = IF IsSet(payload, "title") THEN payload.title ELSE @,
        !.description = IF IsSet(payload, "description") THEN payload.description ELSE @,
        !.status = IF IsSet(payload, "status") THEN payload.status ELSE @,
        !.tags = IF IsSet(payload, "tags") THEN payload.tags ELSE @,
        !.updated_at = t]

TicketRepository_update(items, ticket_id, payload, t) ==
    LET existing == DictGet(items, ticket_id)
    IN  IF existing = None
        THEN [items |-> items, ret |-> None]
        ELSE LET updated == TicketRepository_update_data(existing, payload, t)
             IN  [items |-> DictSet(items, ticket_id, updated), ret |-> updated]

\* delete answering from get and leaving the dict as it is
TicketRepository_delete_keeping(items, ticket_id) ==
    [items |-> items,
     ret |-> DictGet(items, ticket_id) # None]

\* delete answering True whether or not the key was there
TicketRepository_delete_always_true(items, ticket_id) ==
    [items |-> DictPop(items, ticket_id),
     ret |-> TRUE]

TicketRepository_delete(items, ticket_id) ==
    [items |-> DictPop(items, ticket_id),
     ret |-> DictGet(items, ticket_id) # None]

(***************************************************************************)
(* InMemoryCommentRepository.                                              *)
(***************************************************************************)
\* an identifier of the index that is no key of items makes self._items[i]
\* raise KeyError: None in the listing stands for that failure
CommentRepository_list_for_ticket(items, by_ticket, ticket_id) ==
    LET ids == DictGetOr(by_ticket, ticket_id, <<>>)
    IN  [i \in DOMAIN ids |-> DictGet(items, ids[i])]

\* the Comment that create builds; t: the value of datetime.utcnow() that
\* the default_factory of created_at takes
CommentRepository_new(next_id, payload, t) ==
    [id |-> next_id,
     ticket_id |-> payload.ticket_id,
     author |-> payload.author,
     message |-> payload.message,
     created_at |-> t]

\* the identifier put first in the list of the ticket
CommentRepository_index_first(by_ticket, ticket_id, id) ==
    DictSet(by_ticket, ticket_id, <<id>> \o DictGetOr(by_ticket, ticket_id, <<>>))

\* by_ticket.setdefault(ticket_id, []).append(id)
CommentRepository_index(by_ticket, ticket_id, id) ==
    DictSet(by_ticket, ticket_id, Append(DictGetOr(by_ticket, ticket_id, <<>>), id))

CommentRepository_create(items, by_ticket, next_id, payload, t) ==
    LET new == CommentRepository_new(next_id, payload, t)
    IN  [items |-> DictSet(items, next_id, new),
         by_ticket |-> CommentRepository_index(by_ticket, payload.ticket_id, next_id),
         next_id |-> next_id + 1,
         ret |-> new]

(***************************************************************************)
(* InMemoryKBRepository.                                                   *)
(***************************************************************************)
KBRepository_list(items) == DictValues(items)

KBRepository_get(items, article_id) == DictGet(items, article_id)

KBRepository_new(next_id, payload, t1, t2) ==
    [id |-> next_id,
     title |-> payload.title,
     content |-> payload.content,
     created_at |-> t1,
     updated_at |-> t2,
     tags |-> OrEmptyList(payload.tags)]

KBRepository_create(items, next_id, payload, t1, t2) ==
    LET new == KBRepository_new(next_id, payload, t1, t2)
    IN  [items |-> DictSet(items, next_id, new),
         next_id |-> next_id + 1,
         ret |-> new]

KBRepository_update_data(existing, payload, t) ==
    [existing EXCEPT
        !.title = IF IsSet(payload, "title") THEN payload.title ELSE @,
        !.content = IF IsSet(payload, "content") THEN payload.content ELSE @,
        !.tags = IF IsSet(payload, "tags") THEN payload.tags ELSE @,
        !.updated_at = t]

KBRepository_update(items, article_id, payload, t) ==
    LET existing == DictGet(items, article_id)
    IN  IF existing = None
        THEN [items |-> items, ret |-> None]
        ELSE LET updated == KBRepository_update_data(existing, payload, t)
             IN  [items |-> DictSet(items, article_id, updated), ret |-> updated]

KBRepository_delete(items, article_id) ==
    [items |-> DictPop(items, article_id),
     ret |-> DictGet(items, article_id) # None]

(***************************************************************************)
(* The query layer: api/routers/tickets.py and api/routers/kb.py.          *)
(***************************************************************************)
\* Query(50, ge=1, le=200) of size
MaxPageSize == 200

\* the page window counted from page 0
list_tickets_page_from_zero(items, page, size) ==
    LET start == page * size
        end == start + size
    IN  PySlice(items, start, end)

\* tickets.py 38-40
list_tickets_page(items, page, size) ==
    LET start == (page - 1) * size
        end == start + size
    IN  PySlice(items, start, end)

\* the two filters composed with OR
Router_list_tickets_either(items, args) ==
    LET listed == TicketRepository_list(items)
        selected ==
            SelectSeq(listed,
                      LAMBDA t : \/ (Truthy(args, "status") /\ t.status = args.status)
                                 \/ (Truthy(args, "q") /\
                                       (\/ Contains(Lower(args.q), Lower(t.title))
                                        \/ Contains(Lower(args.q), Lower(t.description))))
                                 \/ (~Truthy(args, "status") /\ ~Truthy(args, "q")))
    IN  list_tickets_page(selected, args.page, args.size)

\* tickets.py 23-40; args: status and q (when not None), page, size
Router_list_tickets(items, args) ==
    LET listed == TicketRepository_list(items)
        by_status ==
            IF Truthy(args, "status")
            THEN SelectSeq(listed, LAMBDA t : t.status = args.status)
            ELSE listed
        by_q ==
            IF Truthy(args, "q")
            THEN SelectSeq(by_status,
                           LAMBDA t : \/ Contains(Lower(args.q), Lower(t.title))
                                      \/ Contains(Lower(args.q), Lower(t.description)))
            ELSE by_status
    IN  list_tickets_page(by_q, args.page, args.size)

\* main.py 47-65, the GET /tickets handler of the application object; args:
\* status and tag (when not None); other query parameters are not declared
PyIn(x, list) == \E i \in DOMAIN list : list[i] = x

Main_list_tickets(items, args) ==
    LET listed == TicketRepository_list(items)
        by_status ==
            IF Truthy(args, "status")
            THEN SelectSeq(listed, LAMBDA t : t.status = args.status)
            ELSE listed
        by_tag ==
            IF Truthy(args, "tag")
            THEN SelectSeq(by_status, LAMBDA t : PyIn(args.tag, OrEmptyList(t.tags)))
            ELSE by_status
    IN  by_tag

\* kb.py 109-111
search_kb_page(filtered, page, size) ==
    LET start == (page - 1) * size
        end == start + size
    IN  PySlice(filtered, start, end)

\* kb.py 107: any(q_lower in (tag or "").lower() for tag in (a.tags or []))
search_kb_any_tag(q_lower, tags) ==
    \E i \in DOMAIN OrEmptyList(tags) : Contains(q_lower, Lower(tags[i]))

\* the search comparing q as given, not lowered
Router_search_kb_case_sensitive(items, args) ==
    LET listed == KBRepository_list(items)
        filtered ==
            SelectSeq(listed,
                      LAMBDA a : \/ Contains(args.q, Lower(a.title))
                                 \/ Contains(args.q, Lower(a.content))
                                 \/ search_kb_any_tag(args.q, a.tags))
    IN  search_kb_page(filtered, args.page, args.size)

\* kb.py 94-111; args: q, page, size
Router_search_kb(items, args) ==
    LET listed == KBRepository_list(items)
        q_lower == Lower(args.q)
        filtered ==
            SelectSeq(listed,
                      LAMBDA a : \/ Contains(q_lower, Lower(a.title))
                                 \/ Contains(q_lower, Lower(a.content))
                                 \/ search_kb_any_tag(q_lower, a.tags))
    IN  search_kb_page(filtered, args.page, args.size)

(***************************************************************************)
(* The calls of a run: the arguments they take, and how many creates.      *)
(***************************************************************************)
Calls ==
    [times |-> 0 .. MaxClock,
     creates |-> MaxCreates,
     ids |-> 1 .. MaxCreates,
     ticket_creates |->
        { [title |-> "API", description |-> "timeout", created_by |-> "alice",
           tags |-> <<"ci">>] },
     ticket_updates |->
        { [status |-> "closed", tags |-> <<>>], NoFields },
     comment_creates |->
        { [ticket_id |-> i, author |-> "bob", message |-> "hi"] : i \in 1 .. 2 },
     kb_creates |->
        { [title |-> "API", content |-> "limits", tags |-> <<"Rate">>] },
     kb_updates |->
        { [content |-> "", tags |-> <<>>], NoFields }]

\* the threads of the pool that runs the handlers
Threads == 1 .. NumThreads

\* the values datetime.utcnow() may return after it returned t0: it does not
\* go backwards
TimesFrom(w, t0) == {x \in w.times : x >= t0}

Times(w) == TimesFrom(w, now)

\* create calls so far
Creates == Len(created.ticket) + Len(created.comment) + Len(created.kb)

(***************************************************************************)
(* The calls on the ticket store, one at a time.                           *)
(***************************************************************************)
TicketCreate(w) ==
    /\ Creates < w.creates
    /\ \E payload \in w.ticket_creates, t1 \in Times(w) :
         \E t2 \in TimesFrom(w, t1) :
           LET r == TicketRepository_create(ticket_items, ticket_next_id, payload, t1, t2)
           IN  /\ ticket_items' = r.items
               /\ ticket_next_id' = r.next_id
               /\ now' = t2
               /\ last' = [op |-> "ticket.create", ret |-> r.ret]
               /\ created' = [created EXCEPT !.ticket = Append(@, [id |-> r.ret.id])]
    /\ UNCHANGED <<threads, comment_vars, kb_vars, deleted>>

TicketUpdate(w) ==
    /\ \E ticket_id \in w.ids, payload \in w.ticket_updates, t \in Times(w) :
         LET r == TicketRepository_update(ticket_items, ticket_id, payload, t)
         IN  /\ ticket_items' = r.items
             /\ now' = IF r.ret = None THEN now ELSE t
             /\ last' = [op |-> "ticket.update", id |-> ticket_id,
                         payload |-> payload, ret |-> r.ret]
    /\ UNCHANGED <<threads, ticket_next_id, comment_vars, kb_vars, created, deleted>>

\* delete that also drops the comments of the ticket
TicketDelete_cascading(w) ==
    /\ \E ticket_id \in w.ids :
         LET r == TicketRepository_delete(ticket_items, ticket_id)
         IN  /\ ticket_items' = r.items
             /\ comment_items' = SelectSeq(comment_items,
                                           LAMBDA c : c.value.ticket_id # ticket_id)
             /\ comment_by_ticket' = DictPop(comment_by_ticket, ticket_id)
             /\ last' = [op |-> "ticket.delete", id |-> ticket_id, ret |-> r.ret]
             /\ deleted' = IF r.ret
                           THEN [deleted EXCEPT !.ticket = @ \cup {ticket_id}]
                           ELSE deleted
    /\ UNCHANGED <<threads, ticket_next_id, comment_next_id, kb_vars, now, created>>

TicketDelete(w) ==
    /\ \E ticket_id \in w.ids :
         LET r == TicketRepository_delete(ticket_items, ticket_id)
         IN  /\ ticket_items' = r.items
             /\ last' = [op |-> "ticket.delete", id |-> ticket_id, ret |-> r.ret]
             /\ deleted' = IF r.ret
                           THEN [deleted EXCEPT !.ticket = @ \cup {ticket_id}]
                           ELSE deleted
    /\ UNCHANGED <<threads, ticket_next_id, comment_vars, kb_vars, now, created>>

TicketGet(w) ==
    /\ \E ticket_id \in w.ids :
         last' = [op |-> "ticket.get", id |-> ticket_id,
                  ret |-> TicketRepository_get(ticket_items, ticket_id)]
    /\ UNCHANGED <<threads, ticket_vars, comment_vars, kb_vars, now, created, deleted>>

TicketList ==
    /\ last' = [op |-> "ticket.list", ret |-> TicketRepository_list(ticket_items)]
    /\ UNCHANGED <<threads, ticket_vars, comment_vars, kb_vars, now, created, deleted>>

(***************************************************************************)
(* The calls on the comment store.                                         *)
(***************************************************************************)
CommentCreate(w) ==
    /\ Creates < w.creates
    /\ \E payload \in w.comment_creates, t \in Times(w) :
         LET r == CommentRepository_create(comment_items, comment_by_ticket,
                                           comment_next_id, payload, t)
         IN  /\ comment_items' = r.items
             /\ comment_by_ticket' = r.by_ticket
             /\ comment_next_id' = r.next_id
             /\ now' = t
             /\ last' = [op |-> "comment.create", ret |-> r.ret]
             /\ created' = [created EXCEPT !.comment = Append(@, r.ret)]
    /\ UNCHANGED <<threads, ticket_vars, kb_vars, deleted>>

CommentListForTicket(w) ==
    /\ \E ticket_id \in w.ids :
         last' = [op |-> "comment.list_for_ticket", id |-> ticket_id,
                  ret |-> CommentRepository_list_for_ticket(
                              comment_items, comment_by_ticket, ticket_id)]
    /\ UNCHANGED <<threads, ticket_vars, comment_vars, kb_vars, now, created, deleted>>

(***************************************************************************)
(* The calls on the KB store.                                              *)
(***************************************************************************)
KBCreate(w) ==
    /\ Creates < w.creates
    /\ \E payload \in w.kb_creates, t1 \in Times(w) :
         \E t2 \in TimesFrom(w, t1) :
           LET r == KBRepository_create(kb_items, kb_next_id, payload, t1, t2)
           IN  /\ kb_items' = r.items
               /\ kb_next_id' = r.next_id
               /\ now' = t2
               /\ last' = [op |-> "kb.create", ret |-> r.ret]
               /\ created' = [created EXCEPT !.kb = Append(@, [id |-> r.ret.id])]
    /\ UNCHANGED <<threads, ticket_vars, comment_vars, deleted>>

KBUpdate(w) ==
    /\ \E article_id \in w.ids, payload \in w.kb_updates, t \in Times(w) :
         LET r == KBRepository_update(kb_items, article_id, payload, t)
         IN  /\ kb_items' = r.items
             /\ now' = IF r.ret = None THEN now ELSE t
             /\ last' = [op |-> "kb.update", id |-> article_id,
                         payload |-> payload, ret |-> r.ret]
    /\ UNCHANGED <<threads, kb_next_id, ticket_vars, comment_vars, created, deleted>>

KBDelete(w) ==
    /\ \E article_id \in w.ids :
         LET r == KBRepository_delete(kb_items, article_id)
         IN  /\ kb_items' = r.items
             /\ last' = [op |-> "kb.delete", id |-> article_id, ret |-> r.ret]
             /\ deleted' = IF r.ret
                           THEN [deleted EXCEPT !.kb = @ \cup {article_id}]
                           ELSE deleted
    /\ UNCHANGED <<threads, kb_next_id, ticket_vars, comment_vars, now, created>>

KBGet(w) ==
    /\ \E article_id \in w.ids :
         last' = [op |-> "kb.get", id |-> article_id,
                  ret |-> KBRepository_get(kb_items, article_id)]
    /\ UNCHANGED <<threads, ticket_vars, comment_vars, kb_vars, now, created, deleted>>

KBList ==
    /\ last' = [op |-> "kb.list", ret |-> KBRepository_list(kb_items)]
    /\ UNCHANGED <<threads, ticket_vars, comment_vars, kb_vars, now, created, deleted>>

(***************************************************************************)
(* The stores as core/deps.py constructs them, before any call.            *)
(***************************************************************************)
Init ==
    /\ ticket_items = <<>>
    /\ ticket_next_id = 1
    /\ comment_items = <<>>
    /\ comment_by_ticket = <<>>
    /\ comment_next_id = 1
    /\ kb_items = <<>>
    /\ kb_next_id = 1
    /\ now = 0
    /\ last = [op |-> "init"]
    /\ created = [ticket |-> <<>>, comment |-> <<>>, kb |-> <<>>]
    /\ deleted = [ticket |-> {}, kb |-> {}]
    /\ threads = [t \in Threads |-> [pc |-> "idle"]]

\* Sequential use: every call returns before the next one starts.
Next ==
    \/ TicketCreate(Calls)
    \/ TicketUpdate(Calls)
    \/ TicketDelete(Calls)
    \/ TicketGet(Calls)
    \/ TicketList
    \/ CommentCreate(Calls)
    \/ CommentListForTicket(Calls)
    \/ KBCreate(Calls)
    \/ KBUpdate(Calls)
    \/ KBDelete(Calls)
    \/ KBGet(Calls)
    \/ KBList

Spec == Init /\ [][Next]_vars

(***************************************************************************)
(* Sequential creates and updates, with patches that set each field.       *)
(***************************************************************************)
PatchCalls ==
    [times |-> 0 .. MaxClock,
     creates |-> MaxPatchCreates,
     ids |-> 1 .. MaxPatchCreates,
     ticket_creates |->
        { [title |-> "API", description |-> "timeout", created_by |-> "alice",
           tags |-> <<"ci">>] },
     ticket_updates |->
        { [title |-> ""], [status |-> "closed"], [status |-> "open"], [status |-> ""],
          [description |-> "", tags |-> <<>>] },
     kb_creates |->
        { [title |-> "API", content |-> "limits", tags |-> <<"Rate">>] },
     kb_updates |->
        { [title |-> ""], [content |-> ""], [tags |-> <<>>] }]

NextPatch ==
    \/ TicketCreate(PatchCalls)
    \/ TicketUpdate(PatchCalls)
    \/ KBCreate(PatchCalls)
    \/ KBUpdate(PatchCalls)

SpecPatch == Init /\ [][NextPatch]_vars

(***************************************************************************)
(* Sequential creates and deletes, and paged listings of the routers.      *)
(***************************************************************************)
\* GET /tickets of api/routers/tickets.py, its query parameters validated
RouterListTickets(w) ==
    /\ \E args \in w.ticket_queries :
         /\ args.page >= 1
         /\ args.size >= 1
         /\ args.size <= MaxPageSize
         /\ last' = [op |-> "router.list_tickets", args |-> args,
                     ret |-> Router_list_tickets(ticket_items, args)]
    /\ UNCHANGED <<threads, ticket_vars, comment_vars, kb_vars, now, created, deleted>>

\* GET /kb/search of api/routers/kb.py, its query parameters validated
RouterSearchKB(w) ==
    /\ \E args \in w.kb_queries :
         /\ args.page >= 1
         /\ args.size >= 1
         /\ args.size <= MaxPageSize
         /\ last' = [op |-> "router.search_kb", args |-> args,
                     ret |-> Router_search_kb(kb_items, args)]
    /\ UNCHANGED <<threads, ticket_vars, comment_vars, kb_vars, now, created, deleted>>

PageCalls ==
    [times |-> {0},
     creates |-> MaxPageCreates,
     ids |-> {2},
     ticket_creates |->
        { [title |-> "API", description |-> "timeout", created_by |-> "alice",
           tags |-> <<"ci">>],
          [title |-> "bug", description |-> "", created_by |-> "bob",
           tags |-> <<>>] },
     kb_creates |->
        { [title |-> "API", content |-> "limits", tags |-> <<"Rate">>],
          [title |-> "CI", content |-> "", tags |-> <<>>] },
     ticket_queries |->
        { [page |-> p, size |-> n] : p \in 1 .. MaxPage, n \in {1, 2, MaxPageSize} }
        \cup
        { [status |-> "open", q |-> "Out", page |-> p, size |-> 1] :
            p \in 1 .. MaxPage },
     kb_queries |->
        { [q |-> "aPi", page |-> p, size |-> n] : p \in 1 .. MaxPage, n \in {1, 2} }]

NextPage ==
    \/ TicketCreate(PageCalls)
    \/ TicketDelete(PageCalls)
    \/ RouterListTickets(PageCalls)
    \/ KBCreate(PageCalls)
    \/ RouterSearchKB(PageCalls)

SpecPage == Init /\ [][NextPage]_vars

(***************************************************************************)
(* Concurrent use: the handlers are plain `def` functions, which FastAPI   *)
(* runs on the threads of a pool (api/main.py), and the repositories take  *)
(* no lock.  A thread runs one call; each of its steps is one read or one  *)
(* write of the repository's attributes, and another thread may run        *)
(* between any two of them.                                                *)
(***************************************************************************)
ConcCalls ==
    [times |-> 0 .. MaxClock,
     ticket_creates |->
        { [title |-> "API", description |-> "timeout", created_by |-> "alice",
           tags |-> <<"ci">>],
          [title |-> "bug", description |-> "", created_by |-> "bob",
           tags |-> <<>>] },
     kb_creates |->
        { [title |-> "API", content |-> "limits", tags |-> <<"Rate">>],
          [title |-> "CI", content |-> "", tags |-> <<>>] }]

At(t, pc) == threads[t].pc = pc

\* thread t goes on to pc with its locals changed to frame
Goto(t, pc, frame) == threads' = [threads EXCEPT ![t] = [frame EXCEPT !.pc = pc]]

\* repository.py 93-102: the call starts and builds new, reading _next_id
ConcTicketCreate_new(t, w) ==
    /\ At(t, "idle")
    /\ \E payload \in w.ticket_creates, t1 \in Times(w) :
         \E t2 \in TimesFrom(w, t1) :
           /\ Goto(t, "ticket.create:key",
                   [pc |-> "", op |-> "ticket.create",
                    new |-> TicketRepository_new(ticket_next_id, payload, t1, t2)])
           /\ now' = t2
    /\ UNCHANGED <<ticket_vars, comment_vars, kb_vars, last, created, deleted>>

\* repository.py 103: self._next_id, the subscript, is read
ConcTicketCreate_key(t) ==
    /\ At(t, "ticket.create:key")
    /\ Goto(t, "ticket.create:store",
            [key |-> ticket_next_id] @@ threads[t])
    /\ UNCHANGED <<ticket_vars, comment_vars, kb_vars, now, last, created, deleted>>

\* repository.py 103: self._items[key] = new
ConcTicketCreate_store(t) ==
    /\ At(t, "ticket.create:store")
    /\ ticket_items' = DictSet(ticket_items, threads[t].key, threads[t].new)
    /\ Goto(t, "ticket.create:load", threads[t])
    /\ UNCHANGED <<ticket_next_id, comment_vars, kb_vars, now, last, created, deleted>>

\* repository.py 104: self._next_id += 1 reads self._next_id
ConcTicketCreate_load(t) ==
    /\ At(t, "ticket.create:load")
    /\ Goto(t, "ticket.create:incr", [tmp |-> ticket_next_id] @@ threads[t])
    /\ UNCHANGED <<ticket_vars, comment_vars, kb_vars, now, last, created, deleted>>

\* repository.py 104-105: self._next_id += 1 writes the sum; new is returned
ConcTicketCreate_incr(t) ==
    /\ At(t, "ticket.create:incr")
    /\ ticket_next_id' = threads[t].tmp + 1
    /\ Goto(t, "done", [ret |-> threads[t].new] @@ threads[t])
    /\ last' = [op |-> "ticket.create", ret |-> threads[t].new]
    /\ created' = [created EXCEPT !.ticket = Append(@, [id |-> threads[t].new.id])]
    /\ UNCHANGED <<ticket_items, comment_vars, kb_vars, now, deleted>>

\* repository.py 168-175
ConcKBCreate_new(t, w) ==
    /\ At(t, "idle")
    /\ \E payload \in w.kb_creates, t1 \in Times(w) :
         \E t2 \in TimesFrom(w, t1) :
           /\ Goto(t, "kb.create:key",
                   [pc |-> "", op |-> "kb.create",
                    new |-> KBRepository_new(kb_next_id, payload, t1, t2)])
           /\ now' = t2
    /\ UNCHANGED <<ticket_vars, comment_vars, kb_vars, last, created, deleted>>

\* repository.py 176: self._next_id, the subscript, is read
ConcKBCreate_key(t) ==
    /\ At(t, "kb.create:key")
    /\ Goto(t, "kb.create:store", [key |-> kb_next_id] @@ threads[t])
    /\ UNCHANGED <<ticket_vars, comment_vars, kb_vars, now, last, created, deleted>>

\* repository.py 176: self._items[key] = new
ConcKBCreate_store(t) ==
    /\ At(t, "kb.create:store")
    /\ kb_items' = DictSet(kb_items, threads[t].key, threads[t].new)
    /\ Goto(t, "kb.create:load", threads[t])
    /\ UNCHANGED <<kb_next_id, ticket_vars, comment_vars, now, last, created, deleted>>

\* repository.py 177: self._next_id += 1 reads self._next_id
ConcKBCreate_load(t) ==
    /\ At(t, "kb.create:load")
    /\ Goto(t, "kb.create:incr", [tmp |-> kb_next_id] @@ threads[t])
    /\ UNCHANGED <<ticket_vars, comment_vars, kb_vars, now, last, created, deleted>>

\* repository.py 177-178: self._next_id += 1 writes the sum; new is returned
ConcKBCreate_incr(t) ==
    /\ At(t, "kb.create:incr")
    /\ kb_next_id' = threads[t].tmp + 1
    /\ Goto(t, "done", [ret |-> threads[t].new] @@ threads[t])
    /\ last' = [op |-> "kb.create", ret |-> threads[t].new]
    /\ created' = [created EXCEPT !.kb = Append(@, [id |-> threads[t].new.id])]
    /\ UNCHANGED <<kb_items, ticket_vars, comment_vars, now, deleted>>

\* Concurrent create calls, one per thread.
NextConcCreate ==
    \E t \in Threads :
        \/ ConcTicketCreate_new(t, ConcCalls)
        \/ ConcTicketCreate_key(t)
        \/ ConcTicketCreate_store(t)
        \/ ConcTicketCreate_load(t)
        \/ ConcTicketCreate_incr(t)
        \/ ConcKBCreate_new(t, ConcCalls)
        \/ ConcKBCreate_key(t)
        \/ ConcKBCreate_store(t)
        \/ ConcKBCreate_load(t)
        \/ ConcKBCreate_incr(t)

SpecConcCreate == Init /\ [][NextConcCreate]_vars

(***************************************************************************)
(* Properties of sequential use (Spec).                                    *)
(***************************************************************************)
StoreNames == {"ticket", "comment", "kb"}

\* C1: per store, from a new store, the identifiers create returns are
\* 1, 2, 3, ... in call order, whatever updates and deletes come between.
C1_IdsCountUp ==
    /\ \A s \in StoreNames : \A i \in DOMAIN created[s] : created[s][i].id = i
    /\ last.op = "ticket.create" => last.ret.id = Len(created.ticket)
    /\ last.op = "comment.create" => last.ret.id = Len(created.comment)
    /\ last.op = "kb.create" => last.ret.id = Len(created.kb)

\* a second ticket create after the first ticket was deleted
C1_Witness ==
    /\ last.op = "ticket.create"
    /\ Len(created.ticket) = 2
    /\ 1 \in deleted.ticket

\* C6 as claimed: every successful update makes updated_at strictly greater
\* than it was.
C6_UpdatedAtStrictlyIncreases ==
    [][ /\ (last'.op = "ticket.update" /\ last'.ret # None) =>
             last'.ret.updated_at > DictGet(ticket_items, last'.id).updated_at
        /\ (last'.op = "kb.update" /\ last'.ret # None) =>
             last'.ret.updated_at > DictGet(kb_items, last'.id).updated_at ]_vars

\* What update does guarantee about updated_at (the code's side of C6): a
\* successful update sets updated_at to the value of the
\* clock it reads, which is never less than the updated_at before, and
\* greater exactly when the clock has moved on since.
C6_UpdatedAtIsTheClock ==
    [][ /\ (last'.op = "ticket.update" /\ last'.ret # None) =>
             LET before == DictGet(ticket_items, last'.id).updated_at
             IN  /\ last'.ret.updated_at = now'
                 /\ last'.ret.updated_at >= before
                 /\ last'.ret.updated_at > before <=> now' > before
        /\ (last'.op = "kb.update" /\ last'.ret # None) =>
             LET before == DictGet(kb_items, last'.id).updated_at
             IN  /\ last'.ret.updated_at = now'
                 /\ last'.ret.updated_at >= before
                 /\ last'.ret.updated_at > before <=> now' > before ]_vars

\* an update has returned a ticket whose updated_at is still its created_at,
\* the clock not having moved since the create
C6_Witness ==
    /\ last.op = "ticket.update"
    /\ last.ret # None
    /\ last.ret.updated_at = last.ret.created_at
    /\ now = last.ret.created_at

(***************************************************************************)
(* Properties of concurrent use (SpecConcCreate).                          *)
(***************************************************************************)
\* the threads whose call has returned
Done == {t \in Threads : threads[t].pc = "done"}

\* C2: concurrent creates on one store are never given the same identifier,
\* and once all calls have returned every created entity is stored under
\* its own identifier.
C2_ConcurrentCreatesDistinct ==
    /\ \A t, u \in Done :
         (t # u /\ threads[t].op = threads[u].op) => threads[t].ret.id # threads[u].ret.id
    /\ Done = Threads =>
         \A t \in Threads :
            /\ threads[t].op = "ticket.create" =>
                 DictGet(ticket_items, threads[t].ret.id) = threads[t].ret
            /\ threads[t].op = "kb.create" =>
                 DictGet(kb_items, threads[t].ret.id) = threads[t].ret

\* C3: in sequential use, once delete(id) has returned True (id is in
\* deleted, as of before the call), get(id) and update(id, ...) return
\* None, delete(id) returns False and create never returns id; for the
\* ticket store and for the KB store.
C3_DeletedIdRetired ==
    [][ /\ (last'.op \in {"ticket.get", "ticket.update"} /\ last'.id \in deleted.ticket)
            => last'.ret = None
        /\ (last'.op = "ticket.delete" /\ last'.id \in deleted.ticket)
            => last'.ret = FALSE
        /\ last'.op = "ticket.create" => last'.ret.id \notin deleted.ticket
        /\ (last'.op \in {"kb.get", "kb.update"} /\ last'.id \in deleted.kb)
            => last'.ret = None
        /\ (last'.op = "kb.delete" /\ last'.id \in deleted.kb)
            => last'.ret = FALSE
        /\ last'.op = "kb.create" => last'.ret.id \notin deleted.kb ]_vars

\* ticket 1 was deleted, a ticket was created after it, and update(1, ...)
\* has just returned
C3_Witness ==
    /\ 1 \in deleted.ticket
    /\ Len(created.ticket) = 2
    /\ last.op = "ticket.update"
    /\ last.id = 1
    /\ last.ret = None

\* C4: get, update and delete of an identifier that is not stored return
\* None, None and False, and change nothing of any store nor the clock;
\* for the ticket store and for the KB store.
C4_NotFoundChangesNothing ==
    [][ /\ (last'.op \in {"ticket.get", "ticket.update"}
            /\ last'.id \notin DictKeys(ticket_items))
            => (last'.ret = None
                /\ UNCHANGED <<ticket_vars, comment_vars, kb_vars, now>>)
        /\ (last'.op = "ticket.delete" /\ last'.id \notin DictKeys(ticket_items))
            => (last'.ret = FALSE
                /\ UNCHANGED <<ticket_vars, comment_vars, kb_vars, now, deleted>>)
        /\ (last'.op \in {"kb.get", "kb.update"} /\ last'.id \notin DictKeys(kb_items))
            => (last'.ret = None
                /\ UNCHANGED <<ticket_vars, comment_vars, kb_vars, now>>)
        /\ (last'.op = "kb.delete" /\ last'.id \notin DictKeys(kb_items))
            => (last'.ret = FALSE
                /\ UNCHANGED <<ticket_vars, comment_vars, kb_vars, now, deleted>>) ]_vars

\* delete of a deleted ticket has just returned False, another ticket
\* being stored
C4_Witness ==
    /\ last.op = "ticket.delete"
    /\ last.id \in deleted.ticket
    /\ last.ret = FALSE
    /\ ticket_items # <<>>

\* what list_for_ticket returns for each ticket id a call may name, and for
\* one more
CommentListings ==
    [t \in 1 .. (MaxCreates + 1) |->
        CommentRepository_list_for_ticket(comment_items, comment_by_ticket, t)]

\* C7: a ticket delete, of whichever ticket and whatever it returns, changes
\* nothing in the comment store: list_for_ticket returns for every ticket
\* what it returned before, and the comment id counter is the same.
C7_TicketDeleteKeepsComments ==
    [][ last'.op = "ticket.delete" =>
          /\ CommentListings' = CommentListings
          /\ UNCHANGED comment_vars ]_vars

\* a ticket that has a comment has just been deleted
C7_Witness ==
    /\ last.op = "ticket.delete"
    /\ last.ret = TRUE
    /\ CommentListings[last.id] # <<>>

\* C8: list_for_ticket(t) returns the comments created with ticket_id = t,
\* each once, in the order of their creation; <<>> for a t that no comment
\* names; whether or not a ticket t is stored.
C8_CommentsInCreationOrder ==
    /\ \A t \in DOMAIN CommentListings :
         CommentListings[t] = SelectSeq(created.comment, LAMBDA c : c.ticket_id = t)
    /\ last.op = "comment.list_for_ticket" =>
         last.ret = SelectSeq(created.comment, LAMBDA c : c.ticket_id = last.id)

\* list_for_ticket has returned two comments of a ticket that is not stored
C8_Witness ==
    /\ last.op = "comment.list_for_ticket"
    /\ Len(last.ret) = 2
    /\ last.id \notin DictKeys(ticket_items)
    /\ \E t \in DOMAIN CommentListings : CommentListings[t] = <<>>

\* the identifiers of a listing, in its order
IdsOf(listing) == [i \in DOMAIN listing |-> listing[i].id]

\* the identifiers created and not deleted, ascending
LiveIds(store) ==
    SelectSeq(IdsOf(created[store]), LAMBDA id : id \notin deleted[store])

\* C9: list() returns the entities that are stored, each as stored, in
\* creation order, which is ascending identifier order: the created and not
\* deleted ones, an updated one in its old place; and list() changes no
\* state.  For the ticket store and for the KB store.
C9_ListInCreationOrder ==
    /\ [](LET tickets == TicketRepository_list(ticket_items)
              articles == KBRepository_list(kb_items)
          IN  /\ IdsOf(tickets) = LiveIds("ticket")
              /\ \A i \in DOMAIN tickets :
                   tickets[i] = TicketRepository_get(ticket_items, tickets[i].id)
              /\ last.op = "ticket.list" => last.ret = tickets
              /\ IdsOf(articles) = LiveIds("kb")
              /\ \A i \in DOMAIN articles :
                   articles[i] = KBRepository_get(kb_items, articles[i].id)
              /\ last.op = "kb.list" => last.ret = articles)
    /\ [][ last'.op \in {"ticket.list", "kb.list"} =>
            UNCHANGED <<ticket_vars, comment_vars, kb_vars, now, created, deleted>> ]_vars

\* list() has returned two tickets, the first of them updated after the
\* second was created
C9_Witness ==
    /\ last.op = "ticket.list"
    /\ Len(last.ret) = 2
    /\ last.ret[1].updated_at > last.ret[2].updated_at

(***************************************************************************)
(* Properties of updates (SpecPatch).                                      *)
(***************************************************************************)
TicketFields ==
    {"id", "title", "description", "status", "created_by", "created_at",
     "updated_at", "tags"}

KBFields == {"id", "title", "content", "created_at", "updated_at", "tags"}

\* C5: a successful update leaves every field that the patch does not set
\* as it was, updated_at excepted, and stores what it returns; id,
\* created_by and created_at are set by no patch.  For the ticket store and
\* for the KB store.
C5_UpdateKeepsUnsetFields ==
    [][ /\ (last'.op = "ticket.update" /\ last'.ret # None) =>
             LET old == DictGet(ticket_items, last'.id)
                 new == DictGet(ticket_items', last'.id)
             IN  /\ new = last'.ret
                 /\ DOMAIN last'.payload \cap {"id", "created_by", "created_at"} = {}
                 /\ \A f \in TicketFields \ (DOMAIN last'.payload \cup {"updated_at"}) :
                      new[f] = old[f]
        /\ (last'.op = "kb.update" /\ last'.ret # None) =>
             LET old == DictGet(kb_items, last'.id)
                 new == DictGet(kb_items', last'.id)
             IN  /\ new = last'.ret
                 /\ DOMAIN last'.payload \cap {"id", "created_at"} = {}
                 /\ \A f \in KBFields \ (DOMAIN last'.payload \cup {"updated_at"}) :
                      new[f] = old[f] ]_vars

\* an update setting the title alone has returned a ticket that an earlier
\* update had closed and stripped of its description and tags
C5_Witness ==
    /\ last.op = "ticket.update"
    /\ DOMAIN last.payload = {"title"}
    /\ last.ret # None
    /\ last.ret.status = "closed"
    /\ last.ret.description = ""
    /\ last.ret.tags = <<>>
    /\ last.ret.title = ""


(***************************************************************************)
(* Properties of the paged listings (SpecPage).                            *)
(***************************************************************************)
\* the stored entities in creation order
InCreationOrder(store, items) ==
    LET ids == LiveIds(store)
    IN  [i \in DOMAIN ids |-> DictGet(items, ids[i])]

\* the tickets a query of GET /tickets selects
MatchesTicketQuery(t, args) ==
    /\ IsSet(args, "status") => t.status = args.status
    /\ IsSet(args, "q") =>
         \/ Contains(Lower(args.q), Lower(t.title))
         \/ Contains(Lower(args.q), Lower(t.description))

\* the articles a query of GET /kb/search selects
MatchesKBQuery(a, args) ==
    \/ Contains(Lower(args.q), Lower(a.title))
    \/ Contains(Lower(args.q), Lower(a.content))
    \/ \E i \in DOMAIN a.tags : Contains(Lower(args.q), Lower(a.tags[i]))

\* the elements of s at the 0-based positions (page-1)*size <= i < (page-1)*size + size
WindowOf(s, page, size) ==
    LET first == (page - 1) * size
        inside == {i \in 0 .. Len(s) - 1 : first <= i /\ i < first + size}
    IN  [k \in 1 .. Cardinality(inside) |-> s[first + k]]

\* C10: for page >= 1 and size in 1..200, list_tickets and KB search return
\* exactly the elements at positions [(page-1)*size, (page-1)*size+size) of
\* the filtered, creation-ordered sequence; over five tickets T1..T5 with no
\* filter, page 2 of size 2 is [T3,T4], page 3 is [T5] and page 4 is []; a
\* window beyond the end of the sequence yields the empty sequence.
C10_PageWindow ==
    LET tickets == InCreationOrder("ticket", ticket_items)
        articles == InCreationOrder("kb", kb_items)
        page == last.args.page
        size == last.args.size
    IN  /\ last.op = "router.list_tickets" =>
             LET filtered == SelectSeq(tickets,
                                       LAMBDA t : MatchesTicketQuery(t, last.args))
             IN  /\ last.ret = WindowOf(filtered, page, size)
                 /\ (page - 1) * size >= Len(filtered) => last.ret = <<>>
                 /\ (Len(tickets) = 5 /\ DOMAIN last.args = {"page", "size"} /\ size = 2) =>
                       /\ page = 2 => last.ret = <<tickets[3], tickets[4]>>
                       /\ page = 3 => last.ret = <<tickets[5]>>
                       /\ page = 4 => last.ret = <<>>
        /\ last.op = "router.search_kb" =>
             LET filtered == SelectSeq(articles,
                                       LAMBDA a : MatchesKBQuery(a, last.args))
             IN  /\ last.ret = WindowOf(filtered, page, size)
                 /\ (page - 1) * size >= Len(filtered) => last.ret = <<>>

\* page 3 of size 2 over five tickets returns the fifth alone
C10_Witness ==
    /\ last.op = "router.list_tickets"
    /\ DOMAIN last.args = {"page", "size"}
    /\ last.args.page = 3
    /\ last.args.size = 2
    /\ Len(ticket_items) = 5
    /\ last.ret = <<DictValues(ticket_items)[5]>>
    /\ last.ret[1].title = "bug"


(***************************************************************************)
(* Sequential creates and updates, and filtered listings of GET /tickets:  *)
(* by the handler of api/routers/tickets.py and by the handler that        *)
(* api/main.py registers on the application object.                        *)
(***************************************************************************)
\* GET /tickets of api/main.py
MainListTickets(w) ==
    /\ \E args \in w.ticket_queries :
         last' = [op |-> "main.list_tickets", args |-> args,
                  ret |-> Main_list_tickets(ticket_items, args)]
    /\ UNCHANGED <<threads, ticket_vars, comment_vars, kb_vars, now, created, deleted>>

FilterCalls ==
    [times |-> {0},
     creates |-> MaxFilterCreates,
     ids |-> 1 .. MaxFilterCreates,
     ticket_creates |->
        { [title |-> "Timeout", description |-> "", created_by |-> "alice",
           tags |-> <<"ci">>],
          [title |-> "bug", description |-> "a timeOut", created_by |-> "bob",
           tags |-> <<>>],
          [title |-> "bug", description |-> "", created_by |-> "bob",
           tags |-> <<>>] },
     ticket_updates |-> { [status |-> "closed"], [status |-> ""] },
     ticket_queries |->
        { [status |-> s, q |-> x, page |-> 1, size |-> MaxPageSize] :
            s \in {"open", "closed", ""}, x \in {"timeout", ""} }
        \cup
        { [status |-> s, page |-> 1, size |-> MaxPageSize] : s \in {"open", ""} }
        \cup
        { [q |-> "TIME", page |-> p, size |-> 1] : p \in 1 .. 2 }
        \cup
        { [tag |-> "ci", page |-> 1, size |-> MaxPageSize] }]

NextFilter ==
    \/ TicketCreate(FilterCalls)
    \/ TicketUpdate(FilterCalls)
    \/ RouterListTickets(FilterCalls)
    \/ MainListTickets(FilterCalls)

SpecFilter == Init /\ [][NextFilter]_vars

(***************************************************************************)
(* Properties of the filtered listings (SpecFilter).                       *)
(***************************************************************************)
\* C11: called with a non-empty status and a non-empty q, list_tickets
\* selects exactly the stored tickets whose status equals status and whose
\* title or description contains q case-insensitively, in creation order;
\* a ticket with only one of the two is never returned.
C11_FiltersComposeWithAnd ==
    (/\ last.op = "router.list_tickets"
     /\ IsSet(last.args, "status") /\ last.args.status # ""
     /\ IsSet(last.args, "q") /\ last.args.q # "") =>
        LET both(t) ==
                /\ t.status = last.args.status
                /\ \/ Contains(Lower(last.args.q), Lower(t.title))
                   \/ Contains(Lower(last.args.q), Lower(t.description))
            tickets == InCreationOrder("ticket", ticket_items)
        IN  /\ \A i \in DOMAIN last.ret : both(last.ret[i])
            /\ (last.args.page = 1 /\ last.args.size >= Len(tickets)) =>
                  last.ret = SelectSeq(tickets, both)

\* status "closed" and q "timeout" over a closed ticket that matches q, after
\* an open one that matches q too
C11_Witness ==
    /\ last.op = "router.list_tickets"
    /\ IsSet(last.args, "status") /\ last.args.status = "closed"
    /\ IsSet(last.args, "q") /\ last.args.q = "timeout"
    /\ Len(ticket_items) = 2
    /\ Len(last.ret) = 1
    /\ last.ret[1].id = 2
    /\ last.ret[1].title = "bug"
    /\ DictGet(ticket_items, 1).title = "Timeout"
    /\ DictGet(ticket_items, 1).status = "open"


\* C16: the GET /tickets handler of the application object (api/main.py)
\* returns, for every store state and every status, q, page and size, the
\* same ticket sequence as list_tickets of api/routers/tickets.py.
C16_MainListsAsRouter ==
    last.op = "main.list_tickets" =>
        last.ret = Router_list_tickets(ticket_items, last.args)

\* C17: whenever a status is supplied to list_tickets, the empty string
\* included, every ticket returned has exactly that status.
C17_StatusFilterExact ==
    (last.op = "router.list_tickets" /\ IsSet(last.args, "status")) =>
        \A i \in DOMAIN last.ret : last.ret[i].status = last.args.status


(***************************************************************************)
(* Sequential creates on the KB store and searches of GET /kb/search.      *)
(***************************************************************************)
SearchCalls ==
    [times |-> {0},
     creates |-> MaxFilterCreates,
     kb_creates |->
        { [title |-> "Api", content |-> "", tags |-> <<>>],
          [title |-> "Limits", content |-> "the API", tags |-> <<>>],
          [title |-> "Limits", content |-> "", tags |-> <<"ci", "rAPId">>],
          [title |-> "Staging", content |-> "", tags |-> <<"ci">>] },
     kb_queries |->
        { [q |-> x, page |-> 1, size |-> MaxPageSize] : x \in {"api", "API", "Api"} }
        \cup
        { [q |-> x, page |-> p, size |-> 1] : x \in {"api", "aPI"}, p \in 1 .. 2 }]

NextSearch ==
    \/ KBCreate(SearchCalls)
    \/ RouterSearchKB(SearchCalls)

SpecSearch == Init /\ [][NextSearch]_vars

\* q occurs in s, letter case ignored
OccursIgnoringCase(q, s) ==
    \E i \in 0 .. (Len(s) - Len(q)) : Lower(SubSeq(s, i + 1, i + Len(q))) = Lower(q)

\* the letter-casings of "api" that are searched for
CasingsOfApi == {"api", "API", "Api", "aPI"}

\* C12: KB search selects, from the creation-ordered article list, exactly
\* the articles with q a case-insensitive substring of the title, of the
\* content or of at least one tag, then applies the page window; the result
\* is the same for every letter-casing of q, and an article matching in none
\* of the three places is never returned.
C12_SearchIgnoresCase ==
    last.op = "router.search_kb" =>
        LET q == last.args.q
            matches(a) ==
                \/ OccursIgnoringCase(q, a.title)
                \/ OccursIgnoringCase(q, a.content)
                \/ \E i \in DOMAIN a.tags : OccursIgnoringCase(q, a.tags[i])
            selected == SelectSeq(InCreationOrder("kb", kb_items), matches)
        IN  /\ last.ret = WindowOf(selected, last.args.page, last.args.size)
            /\ \A i \in DOMAIN last.ret : matches(last.ret[i])
            /\ q \in CasingsOfApi =>
                 \A other \in CasingsOfApi :
                    Router_search_kb(kb_items, [last.args EXCEPT !.q = other]) = last.ret

\* "API" finds the article with "rAPId" among its tags and not "Staging"
C12_Witness ==
    /\ last.op = "router.search_kb"
    /\ last.args.q = "API"
    /\ Len(kb_items) = 2
    /\ DictGet(kb_items, 1).title = "Staging"
    /\ DictGet(kb_items, 2).tags = <<"ci", "rAPId">>
    /\ last.ret = <<DictGet(kb_items, 2)>>


(***************************************************************************)
(* Properties of create (Spec).                                            *)
(***************************************************************************)
\* C13: every ticket returned by create has the next identifier, status
\* "open", the supplied tags (the empty sequence when none were supplied) and
\* created_at equal to updated_at; a KB article returned by create has
\* created_at equal to updated_at as well.
C13_CreatedAtIsUpdatedAt ==
    [][ /\ last'.op = "ticket.create" =>
             /\ last'.ret.id = ticket_next_id
             /\ last'.ret.status = "open"
             /\ \E payload \in Calls.ticket_creates : last'.ret.tags = payload.tags
             /\ last'.ret.created_at = last'.ret.updated_at
        /\ last'.op = "kb.create" =>
             last'.ret.created_at = last'.ret.updated_at ]_vars


(***************************************************************************)
(* POST /tickets/{ticket_id}/comments: api/routers/tickets.py 118-130 and  *)
(* api/main.py 140-151, the same code.                                     *)
(***************************************************************************)
\* raise HTTPException(status_code=...)
HTTPException(status_code) == [status_code |-> status_code]

\* the handler without its comparison of the two ids
Router_create_comment_unchecked(items, by_ticket, next_id, ticket_id, payload, t) ==
    CommentRepository_create(items, by_ticket, next_id, payload, t)

Router_create_comment(items, by_ticket, next_id, ticket_id, payload, t) ==
    IF payload.ticket_id # ticket_id
    THEN [items |-> items, by_ticket |-> by_ticket, next_id |-> next_id,
          ret |-> HTTPException(400)]
    ELSE CommentRepository_create(items, by_ticket, next_id, payload, t)

RouterCreateComment(w) ==
    /\ \E ticket_id \in w.ids, payload \in w.comment_creates, t \in Times(w) :
         LET r == Router_create_comment(comment_items, comment_by_ticket,
                                        comment_next_id, ticket_id, payload, t)
             raised == r.ret = HTTPException(400)
         IN  /\ raised \/ Creates < w.creates
             /\ comment_items' = r.items
             /\ comment_by_ticket' = r.by_ticket
             /\ comment_next_id' = r.next_id
             /\ now' = IF raised THEN now ELSE t
             /\ last' = [op |-> "router.create_comment", id |-> ticket_id,
                         payload |-> payload, ret |-> r.ret]
             /\ created' = IF raised THEN created
                           ELSE [created EXCEPT !.comment = Append(@, r.ret)]
    /\ UNCHANGED <<threads, ticket_vars, kb_vars, deleted>>

CommentCalls ==
    [times |-> 0 .. MaxClock,
     creates |-> MaxCommentCreates,
     ids |-> 1 .. 2,
     ticket_creates |->
        { [title |-> "API", description |-> "timeout", created_by |-> "alice",
           tags |-> <<"ci">>] },
     comment_creates |->
        { [ticket_id |-> i, author |-> "bob", message |-> "hi"] : i \in 1 .. 2 }]

NextComment ==
    \/ TicketCreate(CommentCalls)
    \/ TicketDelete(CommentCalls)
    \/ RouterCreateComment(CommentCalls)
    \/ CommentListForTicket(CommentCalls)

SpecComment == Init /\ [][NextComment]_vars

\* C14: a comment-creation request whose path ticket id differs from the
\* ticket_id of its body gets a client error and leaves the comment store as
\* it was (no comment stored, the per-ticket index unchanged, no identifier
\* consumed: the next comment created gets the identifier that follows the
\* last one created); when the two ids agree the comment is created, whether
\* or not a ticket with that id exists.
C14_MismatchRejected ==
    [][ last'.op = "router.create_comment" =>
          IF last'.id # last'.payload.ticket_id
          THEN /\ "status_code" \in DOMAIN last'.ret
               /\ last'.ret.status_code \in 400 .. 499
               /\ comment_items' = comment_items
               /\ comment_by_ticket' = comment_by_ticket
               /\ comment_next_id' = comment_next_id
               /\ \A t \in CommentCalls.ids :
                    CommentRepository_list_for_ticket(comment_items', comment_by_ticket', t)
                      = CommentRepository_list_for_ticket(comment_items, comment_by_ticket, t)
          ELSE /\ last'.ret.id = Len(created.comment) + 1
               /\ last'.ret.ticket_id = last'.id
               /\ last'.ret.author = last'.payload.author
               /\ last'.ret.message = last'.payload.message
               /\ DictGet(comment_items', last'.ret.id) = last'.ret
               /\ CommentRepository_list_for_ticket(comment_items', comment_by_ticket', last'.id)
                    = Append(CommentRepository_list_for_ticket(
                                 comment_items, comment_by_ticket, last'.id),
                             last'.ret) ]_vars

\* a request rejected after a comment was created for a ticket that is not
\* stored
C14_Witness ==
    /\ last.op = "router.create_comment"
    /\ last.id # last.payload.ticket_id
    /\ last.ret = HTTPException(400)
    /\ Len(comment_items) = 1
    /\ TicketRepository_get(ticket_items, DictValues(comment_items)[1].ticket_id) = None
    /\ comment_next_id = 2


(***************************************************************************)
(* Routing of GET requests for the KB paths.  A route is matched by its    *)
(* method and its path, a path being the sequence of its segments; the     *)
(* routes are tried in the order of their registration and the first full  *)
(* match handles the request.  A path parameter matches any one segment,   *)
(* and its conversion to int is done after the match.                      *)
(***************************************************************************)
\* the routes of api/routers/kb.py in the order of their decorators
KBRouterRoutes ==
    << [method |-> "GET", path |-> <<"kb">>, endpoint |-> "list_kb"],
       [method |-> "GET", path |-> <<"kb", "{article_id}">>, endpoint |-> "get_kb"],
       [method |-> "POST", path |-> <<"kb">>, endpoint |-> "create_kb"],
       [method |-> "PATCH", path |-> <<"kb", "{article_id}">>, endpoint |-> "update_kb"],
       [method |-> "DELETE", path |-> <<"kb", "{article_id}">>, endpoint |-> "delete_kb"],
       [method |-> "GET", path |-> <<"kb", "search">>, endpoint |-> "search_kb"] >>

\* the routes of the application object of api/main.py, in the same order
MainRoutes ==
    << [method |-> "GET", path |-> <<>>, endpoint |-> "health_check"],
       [method |-> "GET", path |-> <<"tickets">>, endpoint |-> "list_tickets"],
       [method |-> "GET", path |-> <<"tickets", "{ticket_id}">>, endpoint |-> "get_ticket"],
       [method |-> "POST", path |-> <<"tickets">>, endpoint |-> "create_ticket"],
       [method |-> "PATCH", path |-> <<"tickets", "{ticket_id}">>, endpoint |-> "update_ticket"],
       [method |-> "DELETE", path |-> <<"tickets", "{ticket_id}">>, endpoint |-> "delete_ticket"],
       [method |-> "GET", path |-> <<"tickets", "{ticket_id}", "comments">>,
        endpoint |-> "list_comments"],
       [method |-> "POST", path |-> <<"tickets", "{ticket_id}", "comments">>,
        endpoint |-> "create_comment"],
       [method |-> "GET", path |-> <<"kb">>, endpoint |-> "list_kb"],
       [method |-> "GET", path |-> <<"kb", "{article_id}">>, endpoint |-> "get_kb"],
       [method |-> "POST", path |-> <<"kb">>, endpoint |-> "create_kb"],
       [method |-> "PATCH", path |-> <<"kb", "{article_id}">>, endpoint |-> "update_kb"],
       [method |-> "DELETE", path |-> <<"kb", "{article_id}">>, endpoint |-> "delete_kb"] >>

\* a segment of a route's path that is a path parameter
IsPathParam(segment) == Len(segment) >= 2 /\ SubSeq(segment, 1, 1) = "{"

\* the path of the route matches the path of the request
PathMatches(route, path) ==
    /\ Len(route.path) = Len(path)
    /\ \A i \in DOMAIN path : IsPathParam(route.path[i]) \/ route.path[i] = path[i]

Digits == "0123456789"

\* the value of a decimal digit
DigitValue(c) == (CHOOSE i \in 1 .. Len(Digits) : SubSeq(Digits, i, i) = c) - 1

\* the text is one that int(...) of a path parameter accepts
IsIntText(s) ==
    /\ s # ""
    /\ \A i \in 1 .. Len(s) : \E j \in 1 .. Len(Digits) : SubSeq(Digits, j, j) = SubSeq(s, i, i)

RECURSIVE ParseInt(_)
ParseInt(s) ==
    IF Len(s) = 1 THEN DigitValue(s)
    ELSE ParseInt(SubSeq(s, 1, Len(s) - 1)) * 10 + DigitValue(SubSeq(s, Len(s), Len(s)))

\* the endpoint that handles the request: of the first route matching path
\* and method, else none (405 when some route matches the path alone)
RouteOf(routes, request) ==
    LET full == {i \in DOMAIN routes : /\ PathMatches(routes[i], request.path)
                                       /\ routes[i].method = request.method}
        partial == {i \in DOMAIN routes : PathMatches(routes[i], request.path)}
    IN  IF full # {}
        THEN [endpoint |-> routes[CHOOSE i \in full : \A j \in full : i <= j].endpoint]
        ELSE IF partial # {} THEN HTTPException(405) ELSE HTTPException(404)

\* kb.py 20-22, 33-38, 94-111 (main.py 163-165, 175-180): the GET endpoints
\* of the KB, called with the request's path and query parameters
KBEndpoint(endpoint, request, items) ==
    CASE endpoint = "list_kb" ->
           [status_code |-> 200, body |-> KBRepository_list(items)]
      [] endpoint = "get_kb" ->
           IF ~IsIntText(request.path[2])
           THEN HTTPException(422)
           ELSE LET a == KBRepository_get(items, ParseInt(request.path[2]))
                IN  IF a = None THEN HTTPException(404)
                    ELSE [status_code |-> 200, body |-> a]
      [] endpoint = "search_kb" ->
           IF ~IsSet(request.query, "q")
           THEN HTTPException(422)
           ELSE [status_code |-> 200,
                 body |-> Router_search_kb(
                              items,
                              [q |-> request.query.q,
                               page |-> IF IsSet(request.query, "page")
                                        THEN request.query.page ELSE 1,
                               size |-> IF IsSet(request.query, "size")
                                        THEN request.query.size ELSE 50])]

\* the answer of an application with these routes to a GET request
Respond(routes, request, items) ==
    LET route == RouteOf(routes, request)
    IN  IF IsSet(route, "endpoint")
        THEN [endpoint |-> route.endpoint,
              response |-> KBEndpoint(route.endpoint, request, items)]
        ELSE [endpoint |-> "none", response |-> route]

\* a GET request to the routes of api/routers/kb.py
KBRouterGet(w) ==
    /\ \E request \in w.requests :
         last' = [op |-> "GET", app |-> "routers.kb", request |-> request,
                  ret |-> Respond(KBRouterRoutes, request, kb_items)]
    /\ UNCHANGED <<threads, ticket_vars, comment_vars, kb_vars, now, created, deleted>>

\* a GET request to the application object of api/main.py
MainGet(w) ==
    /\ \E request \in w.requests :
         last' = [op |-> "GET", app |-> "main", request |-> request,
                  ret |-> Respond(MainRoutes, request, kb_items)]
    /\ UNCHANGED <<threads, ticket_vars, comment_vars, kb_vars, now, created, deleted>>

RouteCalls ==
    [times |-> 0 .. MaxClock,
     creates |-> MaxFilterCreates,
     kb_creates |->
        { [title |-> "API", content |-> "limits", tags |-> <<"Rate">>],
          [title |-> "CI", content |-> "", tags |-> <<>>] },
     requests |->
        { [method |-> "GET", path |-> <<"kb", "search">>,
           query |-> [q |-> x, page |-> 1, size |-> n]] : x \in {"api", "zz"}, n \in {1, 50} }
        \cup
        { [method |-> "GET", path |-> <<"kb", "search">>, query |-> [q |-> "ci"]],
          [method |-> "GET", path |-> <<"kb">>, query |-> NoFields],
          [method |-> "GET", path |-> <<"kb", "1">>, query |-> NoFields],
          [method |-> "GET", path |-> <<"kb", "12">>, query |-> NoFields],
          [method |-> "GET", path |-> <<"kb", "1", "x">>, query |-> NoFields] }]

NextRoute ==
    \/ KBCreate(RouteCalls)
    \/ KBRouterGet(RouteCalls)
    \/ MainGet(RouteCalls)

SpecRoute == Init /\ [][NextRoute]_vars

\* C15: a GET request for /kb/search with a query string q is handled by the
\* KB search operation and answers with the page of matching articles, in
\* every store state; it does not end in a not-found or validation error.
C15_SearchRouteReachesSearch ==
    (/\ last.op = "GET"
     /\ last.request.path = <<"kb", "search">>
     /\ IsSet(last.request.query, "q")) =>
        /\ last.ret.endpoint = "search_kb"
        /\ last.ret.response.status_code = 200
        /\ last.ret.response
             = KBEndpoint("search_kb", last.request, kb_items)


(***************************************************************************)
(* Properties of the stored timestamps (Spec).                             *)
(***************************************************************************)
\* C18: in every reachable state of the ticket store and of the KB store,
\* every stored entity has updated_at >= created_at, the clock reads never
\* going backwards.
C18_UpdatedAtNotBeforeCreatedAt ==
    /\ \A i \in DOMAIN ticket_items :
         ticket_items[i].value.updated_at >= ticket_items[i].value.created_at
    /\ \A i \in DOMAIN kb_items :
         kb_items[i].value.updated_at >= kb_items[i].value.created_at

\* a ticket created at one clock value and updated at a later one, next to
\* an article created across a tick of the clock
C18_Witness ==
    /\ \E i \in DOMAIN ticket_items :
         /\ ticket_items[i].value.status = "closed"
         /\ ticket_items[i].value.updated_at > ticket_items[i].value.created_at
    /\ \E i \in DOMAIN kb_items :
         kb_items[i].value.updated_at > kb_items[i].value.created_at


(***************************************************************************)
(* Concurrent update, delete, get and list on a store that was filled      *)
(* before the threads started.  update reads self._items, builds the new   *)
(* entity from what it read and writes self._items, with no lock held in   *)
(* between; delete (dict.pop), get (dict.get) and list are one step each.  *)
(***************************************************************************)
ConcUpdateCalls ==
    [times |-> {0},
     creates |-> MaxPatchCreates,
     ids |-> 1 .. MaxPatchCreates,
     ticket_creates |->
        { [title |-> "API", description |-> "timeout", created_by |-> "alice",
           tags |-> <<"ci">>] },
     ticket_updates |-> { [title |-> "new"], [status |-> "closed"] },
     kb_creates |->
        { [title |-> "API", content |-> "limits", tags |-> <<"Rate">>] },
     kb_updates |-> { [title |-> "new"], [content |-> "more"] }]

\* no call is in progress
Quiet == \A t \in Threads : At(t, "idle") \/ At(t, "done")

\* repository.py 108-110: existing = self._items.get(ticket_id); None is
\* returned at once
ConcTicketUpdate_get(t, w) ==
    /\ At(t, "idle")
    /\ \E ticket_id \in w.ids, payload \in w.ticket_updates :
         LET existing == DictGet(ticket_items, ticket_id)
             frame == [pc |-> "", op |-> "ticket.update", id |-> ticket_id,
                       payload |-> payload]
         IN  IF existing = None
             THEN /\ Goto(t, "done", [ret |-> None] @@ frame)
                  /\ last' = [op |-> "ticket.update", id |-> ticket_id,
                              payload |-> payload, ret |-> None]
             ELSE /\ Goto(t, "ticket.update:data", [existing |-> existing] @@ frame)
                  /\ last' = last
    /\ UNCHANGED <<ticket_vars, comment_vars, kb_vars, now, created, deleted>>

\* repository.py 111-121: data, the clock read, updated = Ticket(**data)
ConcTicketUpdate_data(t, w) ==
    /\ At(t, "ticket.update:data")
    /\ \E time \in Times(w) :
         /\ Goto(t, "ticket.update:store",
                 [updated |-> TicketRepository_update_data(
                                  threads[t].existing, threads[t].payload, time)]
                 @@ threads[t])
         /\ now' = time
    /\ UNCHANGED <<ticket_vars, comment_vars, kb_vars, last, created, deleted>>

\* repository.py 122-123: self._items[ticket_id] = updated; return updated
ConcTicketUpdate_store(t) ==
    /\ At(t, "ticket.update:store")
    /\ ticket_items' = DictSet(ticket_items, threads[t].id, threads[t].updated)
    /\ Goto(t, "done", [ret |-> threads[t].updated] @@ threads[t])
    /\ last' = [op |-> "ticket.update", id |-> threads[t].id,
                payload |-> threads[t].payload, ret |-> threads[t].updated]
    /\ UNCHANGED <<ticket_next_id, comment_vars, kb_vars, now, created, deleted>>

\* repository.py 181-183
ConcKBUpdate_get(t, w) ==
    /\ At(t, "idle")
    /\ \E article_id \in w.ids, payload \in w.kb_updates :
         LET existing == DictGet(kb_items, article_id)
             frame == [pc |-> "", op |-> "kb.update", id |-> article_id,
                       payload |-> payload]
         IN  IF existing = None
             THEN /\ Goto(t, "done", [ret |-> None] @@ frame)
                  /\ last' = [op |-> "kb.update", id |-> article_id,
                              payload |-> payload, ret |-> None]
             ELSE /\ Goto(t, "kb.update:data", [existing |-> existing] @@ frame)
                  /\ last' = last
    /\ UNCHANGED <<ticket_vars, comment_vars, kb_vars, now, created, deleted>>

\* repository.py 184-192
ConcKBUpdate_data(t, w) ==
    /\ At(t, "kb.update:data")
    /\ \E time \in Times(w) :
         /\ Goto(t, "kb.update:store",
                 [updated |-> KBRepository_update_data(
                                  threads[t].existing, threads[t].payload, time)]
                 @@ threads[t])
         /\ now' = time
    /\ UNCHANGED <<ticket_vars, comment_vars, kb_vars, last, created, deleted>>

\* repository.py 193-194
ConcKBUpdate_store(t) ==
    /\ At(t, "kb.update:store")
    /\ kb_items' = DictSet(kb_items, threads[t].id, threads[t].updated)
    /\ Goto(t, "done", [ret |-> threads[t].updated] @@ threads[t])
    /\ last' = [op |-> "kb.update", id |-> threads[t].id,
                payload |-> threads[t].payload, ret |-> threads[t].updated]
    /\ UNCHANGED <<kb_next_id, ticket_vars, comment_vars, now, created, deleted>>

\* create, while no other call is in progress
QuietTicketCreate(w) == Quiet /\ TicketCreate(w)

QuietKBCreate(w) == Quiet /\ KBCreate(w)

\* the one-step calls, made by a thread that then takes its next call
ConcTicketDelete(t, w) == At(t, "idle") /\ TicketDelete(w)

ConcTicketGet(t, w) == At(t, "idle") /\ TicketGet(w)

ConcTicketList(t) == At(t, "idle") /\ TicketList

ConcKBDelete(t, w) == At(t, "idle") /\ KBDelete(w)

ConcKBGet(t, w) == At(t, "idle") /\ KBGet(w)

ConcKBList(t) == At(t, "idle") /\ KBList

NextConcUpdate ==
    \/ QuietTicketCreate(ConcUpdateCalls)
    \/ QuietKBCreate(ConcUpdateCalls)
    \/ \E t \in Threads :
        \/ ConcTicketUpdate_get(t, ConcUpdateCalls)
        \/ ConcTicketUpdate_data(t, ConcUpdateCalls)
        \/ ConcTicketUpdate_store(t)
        \/ ConcTicketDelete(t, ConcUpdateCalls)
        \/ ConcTicketGet(t, ConcUpdateCalls)
        \/ ConcTicketList(t)
        \/ ConcKBUpdate_get(t, ConcUpdateCalls)
        \/ ConcKBUpdate_data(t, ConcUpdateCalls)
        \/ ConcKBUpdate_store(t)
        \/ ConcKBDelete(t, ConcUpdateCalls)
        \/ ConcKBGet(t, ConcUpdateCalls)
        \/ ConcKBList(t)

SpecConcUpdate == Init /\ [][NextConcUpdate]_vars

(***************************************************************************)
(* Properties of concurrent update and delete (SpecConcUpdate).            *)
(***************************************************************************)
\* the stored entity carries every field of the patch
Carries(entity, payload) == \A f \in DOMAIN payload : entity[f] = payload[f]

\* C19: no write is lost when two update calls on the same ticket (or KB
\* article) run concurrently with patches that set different fields: after
\* both have returned, the stored entity carries the value of each patch.
C19_NoLostUpdate ==
    \A t, u \in Done :
        (/\ t # u
         /\ threads[t].op \in {"ticket.update", "kb.update"}
         /\ threads[u].op = threads[t].op
         /\ threads[u].id = threads[t].id
         /\ threads[t].ret # None
         /\ threads[u].ret # None
         /\ DOMAIN threads[t].payload \cap DOMAIN threads[u].payload = {}) =>
            LET stored == IF threads[t].op = "ticket.update"
                          THEN TicketRepository_get(ticket_items, threads[t].id)
                          ELSE KBRepository_get(kb_items, threads[t].id)
            IN  stored # None =>
                   /\ Carries(stored, threads[t].payload)
                   /\ Carries(stored, threads[u].payload)

\* this step is the return of a call of op
Returns(op) == last'.op = op /\ (last.op # op \/ last' # last)

\* C20: in every interleaving, once delete(id) has returned true, every
\* get(id) that starts afterwards returns absent and list() no longer
\* contains id, whatever update(id, ...) calls were in progress at the time
\* of the delete.
C20_DeletedStaysAbsent ==
    [][ /\ (Returns("ticket.get") /\ last'.id \in deleted.ticket) =>
             last'.ret = None
        /\ Returns("ticket.list") =>
             \A i \in DOMAIN last'.ret : last'.ret[i].id \notin deleted.ticket
        /\ (Returns("kb.get") /\ last'.id \in deleted.kb) =>
             last'.ret = None
        /\ Returns("kb.list") =>
             \A i \in DOMAIN last'.ret : last'.ret[i].id \notin deleted.kb ]_vars


(***************************************************************************)
(* Concurrent creates on the comment store, one per thread, and listings   *)
(* made while no create is in progress.  create reads self._next_id for    *)
(* the id, for the key of _items, for the argument of append and for the   *)
(* increment, with no lock held.                                           *)
(***************************************************************************)
ConcCommentCalls ==
    [times |-> {0},
     ids |-> 1 .. 2,
     comment_creates |->
        { [ticket_id |-> i, author |-> "bob", message |-> "hi"] : i \in 1 .. 2 }]

\* repository.py 142-147: new = Comment(id=self._next_id, ...)
ConcCommentCreate_new(t, w) ==
    /\ At(t, "idle")
    /\ \E payload \in w.comment_creates, time \in Times(w) :
         /\ Goto(t, "comment.create:key",
                 [pc |-> "", op |-> "comment.create", payload |-> payload,
                  new |-> CommentRepository_new(comment_next_id, payload, time)])
         /\ now' = time
    /\ UNCHANGED <<ticket_vars, comment_vars, kb_vars, last, created, deleted>>

\* repository.py 148: self._next_id, the subscript, is read
ConcCommentCreate_key(t) ==
    /\ At(t, "comment.create:key")
    /\ Goto(t, "comment.create:store", [key |-> comment_next_id] @@ threads[t])
    /\ UNCHANGED <<ticket_vars, comment_vars, kb_vars, now, last, created, deleted>>

\* repository.py 148: self._items[key] = new
ConcCommentCreate_store(t) ==
    /\ At(t, "comment.create:store")
    /\ comment_items' = DictSet(comment_items, threads[t].key, threads[t].new)
    /\ Goto(t, "comment.create:setdefault", threads[t])
    /\ UNCHANGED <<comment_by_ticket, comment_next_id, ticket_vars, kb_vars, now,
                   last, created, deleted>>

\* repository.py 149: self._by_ticket.setdefault(payload.ticket_id, [])
ConcCommentCreate_setdefault(t) ==
    /\ At(t, "comment.create:setdefault")
    /\ comment_by_ticket' =
         DictSet(comment_by_ticket, threads[t].payload.ticket_id,
                 DictGetOr(comment_by_ticket, threads[t].payload.ticket_id, <<>>))
    /\ Goto(t, "comment.create:arg", threads[t])
    /\ UNCHANGED <<comment_items, comment_next_id, ticket_vars, kb_vars, now,
                   last, created, deleted>>

\* repository.py 149: self._next_id, the argument of append, is read
ConcCommentCreate_arg(t) ==
    /\ At(t, "comment.create:arg")
    /\ Goto(t, "comment.create:append", [arg |-> comment_next_id] @@ threads[t])
    /\ UNCHANGED <<ticket_vars, comment_vars, kb_vars, now, last, created, deleted>>

\* repository.py 149: .append(arg), on the list that is in the index
ConcCommentCreate_append(t) ==
    /\ At(t, "comment.create:append")
    /\ comment_by_ticket' =
         CommentRepository_index(comment_by_ticket, threads[t].payload.ticket_id,
                                 threads[t].arg)
    /\ Goto(t, "comment.create:load", threads[t])
    /\ UNCHANGED <<comment_items, comment_next_id, ticket_vars, kb_vars, now,
                   last, created, deleted>>

\* repository.py 150: self._next_id += 1 reads self._next_id
ConcCommentCreate_load(t) ==
    /\ At(t, "comment.create:load")
    /\ Goto(t, "comment.create:incr", [tmp |-> comment_next_id] @@ threads[t])
    /\ UNCHANGED <<ticket_vars, comment_vars, kb_vars, now, last, created, deleted>>

\* repository.py 150-151: self._next_id += 1 writes the sum; new is returned
ConcCommentCreate_incr(t) ==
    /\ At(t, "comment.create:incr")
    /\ comment_next_id' = threads[t].tmp + 1
    /\ Goto(t, "done", [ret |-> threads[t].new] @@ threads[t])
    /\ last' = [op |-> "comment.create", ret |-> threads[t].new]
    /\ created' = [created EXCEPT !.comment = Append(@, threads[t].new)]
    /\ UNCHANGED <<comment_items, comment_by_ticket, ticket_vars, kb_vars, now, deleted>>

\* list_for_ticket, while no create is in progress
QuietCommentListForTicket(w) == Quiet /\ CommentListForTicket(w)

NextConcComment ==
    \/ QuietCommentListForTicket(ConcCommentCalls)
    \/ \E t \in Threads :
        \/ ConcCommentCreate_new(t, ConcCommentCalls)
        \/ ConcCommentCreate_key(t)
        \/ ConcCommentCreate_store(t)
        \/ ConcCommentCreate_setdefault(t)
        \/ ConcCommentCreate_arg(t)
        \/ ConcCommentCreate_append(t)
        \/ ConcCommentCreate_load(t)
        \/ ConcCommentCreate_incr(t)

SpecConcComment == Init /\ [][NextConcComment]_vars

(***************************************************************************)
(* Properties of concurrent comment creates (SpecConcComment).             *)
(***************************************************************************)
\* the places <<ticket, position>> of the index that hold the identifier
IndexPlaces(id) ==
    {p \in (DOMAIN comment_by_ticket) \X (1 .. Len(comment_items) + NumThreads) :
        /\ p[2] <= Len(comment_by_ticket[p[1]].value)
        /\ comment_by_ticket[p[1]].value[p[2]] = id}

\* C21: under concurrent comment creates, once all calls have returned, the
\* per-ticket index and the comment map agree: every identifier listed under
\* ticket t is a key of the map whose comment has ticket_id = t, every stored
\* comment's identifier is in the index exactly once, under its own
\* ticket_id, and list_for_ticket(t) returns no comment of another ticket
\* and does not fail.
C21_IndexAgreesWithMap ==
    Quiet =>
        /\ \A e \in DOMAIN comment_by_ticket :
             \A i \in DOMAIN comment_by_ticket[e].value :
                LET c == DictGet(comment_items, comment_by_ticket[e].value[i])
                IN  c # None /\ c.ticket_id = comment_by_ticket[e].key
        /\ \A k \in DOMAIN comment_items :
             /\ Cardinality(IndexPlaces(comment_items[k].key)) = 1
             /\ \A p \in IndexPlaces(comment_items[k].key) :
                  comment_by_ticket[p[1]].key = comment_items[k].value.ticket_id
        /\ last.op = "comment.list_for_ticket" =>
             \A i \in DOMAIN last.ret :
                last.ret[i] # None /\ last.ret[i].ticket_id = last.id


(***************************************************************************)
(* Sequential creates and updates of the status of tickets.                *)
(***************************************************************************)
\* texts given as a status: the default, the empty text, one of no list
StatusTexts == {"open", "", "In Review"}

StatusCalls ==
    [times |-> 0 .. MaxClock,
     creates |-> MaxCreates,
     ids |-> 1 .. MaxCreates,
     ticket_creates |->
        { [title |-> "API", description |-> "timeout", created_by |-> "alice",
           tags |-> <<"ci">>] },
     ticket_updates |->
        { [status |-> s] : s \in StatusTexts }
        \cup
        { [title |-> "was closed", status |-> "closed"] }]

NextStatus ==
    \/ TicketCreate(StatusCalls)
    \/ TicketUpdate(StatusCalls)

SpecStatus == Init /\ [][NextStatus]_vars

\* C22: for every stored ticket, whatever its status, update(id, {status: s})
\* with any text s succeeds and the stored status becomes s: a ticket goes
\* from any status to any other and back, and no update is rejected for the
\* current or the requested status.
C22_AnyStatusAccepted ==
    [][ (/\ last'.op = "ticket.update"
         /\ IsSet(last'.payload, "status")
         /\ TicketRepository_get(ticket_items, last'.id) # None) =>
            /\ last'.ret # None
            /\ last'.ret.status = last'.payload.status
            /\ TicketRepository_get(ticket_items', last'.id).status
                 = last'.payload.status ]_vars

\* a ticket that was closed has been given the status "open" again
C22_Witness ==
    /\ last.op = "ticket.update"
    /\ last.payload = [status |-> "open"]
    /\ last.ret # None
    /\ last.ret.title = "was closed"
    /\ last.ret.status = "open"
    /\ TicketRepository_get(ticket_items, last.id).status = "open"


(***************************************************************************)
(* Properties of patches with empty values (SpecPatch).                    *)
(***************************************************************************)
\* C23: a successful update sets every field that is present in the patch
\* to the patch's value, also when that value is empty: title "" empties the
\* title and tags [] clears the tags.  For the ticket store (title,
\* description, status, tags) and the KB store (title, content, tags).
C23_EmptyValuesAreSet ==
    [][ /\ (last'.op = "ticket.update" /\ last'.ret # None) =>
             /\ DOMAIN last'.payload \subseteq {"title", "description", "status", "tags"}
             /\ \A f \in DOMAIN last'.payload :
                  /\ last'.ret[f] = last'.payload[f]
                  /\ TicketRepository_get(ticket_items', last'.id)[f] = last'.payload[f]
        /\ (last'.op = "kb.update" /\ last'.ret # None) =>
             /\ DOMAIN last'.payload \subseteq {"title", "content", "tags"}
             /\ \A f \in DOMAIN last'.payload :
                  /\ last'.ret[f] = last'.payload[f]
                  /\ KBRepository_get(kb_items', last'.id)[f] = last'.payload[f] ]_vars

\* the patch with an empty description and no tags has emptied both, on a
\* ticket whose status an earlier patch had emptied
C23_Witness ==
    /\ last.op = "ticket.update"
    /\ last.payload = [description |-> "", tags |-> <<>>]
    /\ last.ret # None
    /\ last.ret.description = ""
    /\ last.ret.tags = <<>>
    /\ last.ret.status = ""
    /\ last.ret.title = "API"


(***************************************************************************)
(* What update and delete leave alone (Spec).                              *)
(***************************************************************************)
\* the entities stored under the other identifiers are the same in both
OthersUnchanged(before, after, id) ==
    \A k \in (DictKeys(before) \cup DictKeys(after)) \ {id} :
        DictGet(after, k) = DictGet(before, k)

\* C24: in sequential use, update(id, ...) and delete(id) on the ticket
\* store or the KB store change no entity but the one with identifier id,
\* update adds and removes no key, delete removes at most the key id, and
\* neither changes the next-identifier counter; only create advances it, by
\* exactly one.
C24_OnlyTheNamedEntityChanges ==
    [][ /\ last'.op = "ticket.update" =>
             /\ OthersUnchanged(ticket_items, ticket_items', last'.id)
             /\ DictKeys(ticket_items') = DictKeys(ticket_items)
             /\ ticket_next_id' = ticket_next_id
        /\ last'.op = "ticket.delete" =>
             /\ OthersUnchanged(ticket_items, ticket_items', last'.id)
             /\ DictKeys(ticket_items') = DictKeys(ticket_items) \ {last'.id}
             /\ ticket_next_id' = ticket_next_id
        /\ last'.op = "ticket.create" => ticket_next_id' = ticket_next_id + 1
        /\ ticket_next_id' # ticket_next_id => last'.op = "ticket.create"
        /\ last'.op = "kb.update" =>
             /\ OthersUnchanged(kb_items, kb_items', last'.id)
             /\ DictKeys(kb_items') = DictKeys(kb_items)
             /\ kb_next_id' = kb_next_id
        /\ last'.op = "kb.delete" =>
             /\ OthersUnchanged(kb_items, kb_items', last'.id)
             /\ DictKeys(kb_items') = DictKeys(kb_items) \ {last'.id}
             /\ kb_next_id' = kb_next_id
        /\ last'.op = "kb.create" => kb_next_id' = kb_next_id + 1
        /\ kb_next_id' # kb_next_id => last'.op = "kb.create" ]_vars

\* the second ticket, closed by an update, is stored as it was after the
\* first has been deleted
C24_Witness ==
    /\ last.op = "ticket.delete"
    /\ last.id = 1
    /\ last.ret = TRUE
    /\ DictKeys(ticket_items) = {2}
    /\ TicketRepository_get(ticket_items, 2).status = "closed"
    /\ ticket_next_id = 3

=============================================================================
